---- MODULE Spec2Model ----
(***************************************************************************)
(* pwatch: rolling counters, process panels, the layout packer and the     *)
(* scroll window, modelled from src/src/counter.rs, src/src/layout.rs,     *)
(* src/src/config.rs, src/src/ux.rs and the event loop of src/src/main.rs. *)
(***************************************************************************)
EXTENDS Integers, Sequences, FiniteSets, TLC

VARIABLES
    mode,       \* which of the specifications below is running
    lay,        \* the Layout struct (layout.rs 15-25)
    pc,         \* position of process_events: "start" before the first update, then "loop"
    now,        \* SystemTime::now(), a logical clock
    ticks,      \* number of snapshot merges performed so far
    scroll_res, \* force_redraw as Layout::scroll set it in the last loop iteration
    ctr,        \* a stand-alone Counter
    added,      \* every sample passed to add, in arrival order
    proc,       \* a stand-alone Process
    pk_in,      \* inputs of the layout packer: panel count, rows, preferences
    pk_out,     \* outputs of the layout packer for pk_in
    run2,       \* a second run of the program: its Layout and its clock
    gfx,        \* the size and Config a Counter is drawn with (draw_counter)
    call,       \* arguments of a function of ux.rs or counter.rs under evaluation
    ret,        \* what the function returned for call
    tmr         \* process_events' timing: tm, the start of the current poll, the
                \* instant of the last lay.update and the last event read

vars == <<mode, lay, pc, now, ticks, scroll_res, ctr, added, proc, pk_in, pk_out,
          run2, gfx, call, ret, tmr>>

----------------------------------------------------------------------------
(* Program constants *)

MIN_HEIGHT == 5
GRAPH_AREA == 5
SCROLL_HOME == -9999999
SCROLL_END == 9999999
MinCols == 30
MinRows == 10
DefaultDisplayCnt == 40
CpuScale == 100

(* Bounds of the model *)

MaxPanels == 4
MaxTicks == 3
MaxShift == 2
MaxCap == 3
MaxSample == 2
MaxAdds == 5
MaxProcAdds == 10
MaxPackProcs == 5
MaxPackRows == 45
MaxKeyTicks == 2
MaxGraphAdds == 3
MaxMarkAdds == 3
MaxRoundDelta == 32
MaxGlyphOver == 2
Freq == 2
MaxWork == 1
MaxClock == 7
MaxSnapshots == 2
MaxSize == 2
MaxScreenAdds == 3

None == <<>>
Some(x) == <<x>>

Min(a, b) == IF a < b THEN a ELSE b

----------------------------------------------------------------------------
(* ux.rs *)

\* round_to_hundred without the early return for a multiple of 100
round_to_hundred_next(v) ==
    (v \div 100 + 1) * 100

round_to_hundred(v) ==
    IF v % 100 = 0 THEN v ELSE (v \div 100 + 1) * 100

\* the while loop of short_round
RECURSIVE short_round_loop(_, _, _)
short_round_loop(val, coef, down) ==
    IF val >= 1024
    THEN LET delta == IF val % 1024 = 0 THEN 0 ELSE 1
             v1 == val \div 1024
         IN  short_round_loop(IF ~down THEN v1 + delta ELSE v1, coef * 1024, down)
    ELSE <<val, coef>>

\* short_round that never adds the remainder's delta
short_round_floor(val, down) ==
    IF val < 1024 THEN <<val, 1>>
    ELSE short_round_loop(val \div 1024, 1024, TRUE)

\* short_round(val, down): the pair (rounded value, coefficient)
short_round(val, down) ==
    IF val < 1024 THEN <<val, 1>>
    ELSE LET delta == IF val % 1024 = 0 THEN 0 ELSE 1
             v1 == val \div 1024
         IN  short_round_loop(IF ~down /\ delta # 0 THEN v1 + 1 ELSE v1, 1024, down)

----------------------------------------------------------------------------
(* counter.rs: Counter *)

DefaultCounter ==
    [ values |-> <<>>, display_cnt |-> DefaultDisplayCnt, scale_to |-> 0, max |-> 0,
      auto_scale |-> FALSE, w |-> 0, h |-> 0, gmin |-> 0, gmax |-> 0,
      mark_value |-> None, screen |-> <<>> ]

\* Counter::add with the shift loop left out: a full buffer only has its last
\* slot overwritten
CounterAddNoShift(c, val) ==
    LET c1 == [c EXCEPT !.max = IF val > c.max THEN val ELSE c.max]
        c2 == IF c1.scale_to # 0 /\ c1.scale_to < val
              THEN [c1 EXCEPT !.scale_to = round_to_hundred(val)]
              ELSE c1
        l == Len(c2.values)
    IN  IF l = 0 \/ l < c2.display_cnt
        THEN [c2 EXCEPT !.values = Append(c2.values, val)]
        ELSE [c2 EXCEPT !.values[l] = val]

\* Counter::add that keeps the maximum of the retained samples
CounterAddShownMax(c, val) ==
    LET c2 == IF c.scale_to # 0 /\ c.scale_to < val
              THEN [c EXCEPT !.scale_to = round_to_hundred(val)]
              ELSE c
        l == Len(c2.values)
        vs == IF l = 0 \/ l < c2.display_cnt
              THEN Append(c2.values, val)
              ELSE [idx \in 1..l |-> IF idx < l THEN c2.values[idx + 1] ELSE val]
    IN  [c2 EXCEPT !.values = vs,
                   !.max = CHOOSE m \in {vs[i] : i \in 1..Len(vs)} :
                              \A i \in 1..Len(vs) : vs[i] <= m]

CounterAdd(c, val) ==
    LET c1 == [c EXCEPT !.max = IF val > c.max THEN val ELSE c.max]
        c2 == IF c1.scale_to # 0 /\ c1.scale_to < val
              THEN [c1 EXCEPT !.scale_to = round_to_hundred(val)]
              ELSE c1
        l == Len(c2.values)
    IN  IF l = 0 \/ l < c2.display_cnt
        THEN [c2 EXCEPT !.values = Append(c2.values, val)]
        ELSE [c2 EXCEPT !.values = [idx \in 1..l |->
                                      IF idx < l THEN c2.values[idx + 1] ELSE val]]

\* Counter::last
last(c) == IF c.values = <<>> THEN 0 ELSE c.values[Len(c.values)]

\* Counter::last_diff that ignores the mark baseline
last_diff_prev(c) ==
    LET l == Len(c.values)
    IN  IF l < 2 THEN 0 ELSE c.values[l] - c.values[l - 1]

\* Counter::last_diff
last_diff(c) ==
    LET l == Len(c.values)
    IN  IF l < 2 THEN 0
        ELSE c.values[l] - (IF c.mark_value # None THEN c.mark_value[1]
                            ELSE c.values[l - 1])

\* vs.iter().max() with 0 for no element
SeqMax(vs) ==
    IF vs = <<>> THEN 0
    ELSE CHOOSE m \in {vs[i] : i \in 1..Len(vs)} : \A i \in 1..Len(vs) : vs[i] <= m

\* vs.iter().min()
SeqMin(vs) ==
    CHOOSE m \in {vs[i] : i \in 1..Len(vs)} : \A i \in 1..Len(vs) : m <= vs[i]

\* Counter::max_last_n
max_last_n(c, n) ==
    LET l == Len(c.values)
        vs == IF n >= l THEN c.values ELSE SubSeq(c.values, l - n + 1, l)
    IN  SeqMax(vs)

\* Counter::calculate_range without the increment of an equal max_rnd
calculate_range_same(c) ==
    IF ~c.auto_scale \/ c.values = <<>> THEN c
    ELSE LET min == SeqMin(c.values)
             max == SeqMax(c.values)
             mn == short_round(min, TRUE)
             mx == short_round(max, FALSE)
         IN  [c EXCEPT !.gmin = mn[1] * mn[2], !.gmax = mx[1] * mx[2]]

\* Counter::calculate_range
calculate_range(c) ==
    IF ~c.auto_scale \/ c.values = <<>> THEN c
    ELSE LET min == SeqMin(c.values)
             max == SeqMax(c.values)
             mn == short_round(min, TRUE)
             mx == short_round(max, FALSE)
             max_rnd == IF mn[1] = mx[1] THEN mx[1] + 1 ELSE mx[1]
         IN  [c EXCEPT !.gmin = mn[1] * mn[2], !.gmax = max_rnd * mx[2]]

\* the glyph sets of the three detail levels: " " is blank, "b1" .. "b8" are the
\* blocks U+2581 .. U+2588 (one eighth .. full)
LOW == <<" ", "b8">>
MED == <<" ", "b4", "b8">>
HGH == <<" ", "b1", "b2", "b3", "b4", "b5", "b6", "b7", "b8">>

\* Config::steps
steps(detail) ==
    CASE detail = "Low" -> 1
      [] detail = "Medium" -> 2
      [] detail = "High" -> 8

\* char_for_value that multiplies by steps, not by steps + 1
char_for_value_steps(num, den, detail) ==
    IF num >= den THEN "b8"
    ELSE IF num <= 0 THEN " "
    ELSE LET idx == (num * steps(detail)) \div den
         IN  CASE detail = "Low" -> LOW[idx + 1]
               [] detail = "Medium" -> MED[idx + 1]
               [] detail = "High" -> HGH[idx + 1]

\* char_for_value(val, conf) for val = num / den, den > 0. The f64 product and
\* its truncation are computed exactly.
char_for_value(num, den, detail) ==
    IF num >= den THEN "b8"
    ELSE IF num <= 0 THEN " "
    ELSE LET idx == (num * (steps(detail) + 1)) \div den
         IN  CASE detail = "Low" -> LOW[idx + 1]
               [] detail = "Medium" -> MED[idx + 1]
               [] detail = "High" -> HGH[idx + 1]

\* Counter::update with the full cells filled from the top row downwards
update_top_down(c, neww, newh, conf) ==
    LET size == neww * (newh + 1)
        blank == IF c.w # neww \/ c.h # newh
                 THEN [pos \in 1..size |-> " "]
                 ELSE [pos \in 1..Len(c.screen) |-> " "]
        sc == IF c.auto_scale
              THEN (IF conf.scale_max THEN <<c.max, 0>> ELSE <<c.gmax - c.gmin, c.gmin>>)
              ELSE <<c.scale_to, 0>>
        scale_to == sc[1]
        scale_min == sc[2]
        l == Len(c.values)
        vs == IF l <= neww THEN c.values ELSE SubSeq(c.values, l - neww + 1, l)
        start == IF l <= neww THEN neww - l ELSE 0
        cell(pos) ==
            LET x == pos % neww
                row == pos \div neww
                k == x - start + 1
            IN  IF k < 1 \/ k > Len(vs) THEN " "
                ELSE LET v == vs[k]
                         delta == IF c.auto_scale THEN v - scale_min ELSE v
                         val == IF delta > scale_to THEN scale_to ELSE delta
                         full == (val * newh) \div scale_to
                         ch == char_for_value(val * newh - full * scale_to, scale_to,
                                              conf.detail)
                     IN  IF row = newh
                         THEN (IF k = 1 \/ vs[k - 1] = v THEN " "
                               ELSE IF vs[k - 1] > v THEN "-" ELSE "+")
                         ELSE IF row < full THEN "b8"
                         ELSE IF row = full THEN ch
                         ELSE " "
    IN  IF c.values = <<>> \/ scale_to = 0 \/ neww = 0 THEN [c EXCEPT !.screen = blank]
        ELSE [c EXCEPT !.screen = [pos \in 1..size |-> cell(pos - 1)]]

\* Counter::update(neww, newh, conf): the screen holds rows 0 .. newh - 1 of the
\* graph, top row first, and row newh of change markers; screen[pos + 1] is the
\* cell at column pos % neww of row pos / neww. The counter is drawn after
\* calculate_range, so no sample lies below scale_min. val / step and part are
\* computed exactly (val * newh / scale_to), not in f64. self.w and self.h are
\* compared but never assigned: a call with their values keeps the old screen
\* and blanks it. With neww = 0 the loop has no sample to draw.
update(c, neww, newh, conf) ==
    LET size == neww * (newh + 1)
        blank == IF c.w # neww \/ c.h # newh
                 THEN [pos \in 1..size |-> " "]
                 ELSE [pos \in 1..Len(c.screen) |-> " "]
        sc == IF c.auto_scale
              THEN (IF conf.scale_max THEN <<c.max, 0>> ELSE <<c.gmax - c.gmin, c.gmin>>)
              ELSE <<c.scale_to, 0>>
        scale_to == sc[1]
        scale_min == sc[2]
        l == Len(c.values)
        vs == IF l <= neww THEN c.values ELSE SubSeq(c.values, l - neww + 1, l)
        start == IF l <= neww THEN neww - l ELSE 0
        cell(pos) ==
            LET x == pos % neww
                row == pos \div neww
                k == x - start + 1
            IN  IF k < 1 \/ k > Len(vs) THEN " "
                ELSE LET v == vs[k]
                         delta == IF c.auto_scale THEN v - scale_min ELSE v
                         val == IF delta > scale_to THEN scale_to ELSE delta
                         full == (val * newh) \div scale_to
                         ch == char_for_value(val * newh - full * scale_to, scale_to,
                                              conf.detail)
                     IN  IF row = newh
                         THEN (IF k = 1 \/ vs[k - 1] = v THEN " "
                               ELSE IF vs[k - 1] > v THEN "-" ELSE "+")
                         ELSE IF row >= newh - full THEN "b8"
                         ELSE IF row = newh - full - 1 THEN ch
                         ELSE " "
    IN  IF c.values = <<>> \/ scale_to = 0 \/ neww = 0 THEN [c EXCEPT !.screen = blank]
        ELSE [c EXCEPT !.screen = [pos \in 1..size |-> cell(pos - 1)]]

\* draw_counter's memory graph drawn with the range of the draw before
draw_counter_stale(c, neww, newh, conf) ==
    update(c, neww, newh, conf)

\* draw_counter's memory graph: proc.mem.calculate_range(), then
\* proc.mem.update at the size of the graph
draw_counter(c, neww, newh, conf) ==
    update(calculate_range(c), neww, newh, conf)

\* the unsigned subtractions (minuend, subtrahend) of Counter::update on a
\* non-empty counter: the range of an auto-scaled counter that is not scaled
\* to its maximum, and `*v - scale_min` for every sample of the window
update_subs(c, neww, conf) ==
    LET ranged == c.auto_scale /\ ~conf.scale_max
        scale_min == IF ranged THEN c.gmin ELSE 0
        scale_to == IF ~c.auto_scale THEN c.scale_to
                    ELSE IF conf.scale_max THEN c.max ELSE c.gmax - c.gmin
        l == Len(c.values)
        vs == IF l <= neww THEN c.values ELSE SubSeq(c.values, l - neww + 1, l)
    IN  IF c.values = <<>> THEN {}
        ELSE (IF ranged THEN {<<c.gmax, c.gmin>>} ELSE {})
                \cup (IF c.auto_scale /\ scale_to # 0 /\ neww # 0
                      THEN {<<vs[k], scale_min>> : k \in 1..Len(vs)}
                      ELSE {})

\* Counter::toggle_mark
CounterToggleMark(c) ==
    IF c.mark_value = None THEN [c EXCEPT !.mark_value = Some(last(c))]
    ELSE [c EXCEPT !.mark_value = None]

\* Counter::reset_max; self.w is the private field nothing assigns
CounterResetMax(c) ==
    LET m == max_last_n(c, c.w)
    IN  [c EXCEPT !.max = m,
                  !.scale_to = IF c.scale_to # 0
                               THEN (IF m = 0 THEN 100 ELSE round_to_hundred(m))
                               ELSE c.scale_to]

----------------------------------------------------------------------------
(* counter.rs: Process *)

\* Process::new; the text fields cmd, exe and title are not modelled
NewProcess(pid, sided) ==
    [ cpu |-> [DefaultCounter EXCEPT !.scale_to = CpuScale],
      mem |-> [DefaultCounter EXCEPT !.auto_scale = TRUE],
      pid |-> pid, dead |-> FALSE, x |-> 0, y |-> 0, w |-> 0, h |-> 0,
      sided |-> sided,
      io_w_total |-> 0, io_r_total |-> 0, io_w_delta |-> 0, io_r_delta |-> 0,
      dead_since |-> None, mark_r_io |-> None, mark_w_io |-> None ]

dim(p, x, y, w, h, sided) ==
    LET p1 == [p EXCEPT !.x = x, !.y = y, !.w = w, !.h = h, !.sided = sided]
        cp_w == IF sided THEN (w \div 2) - 6 ELSE w - 6
        mm_w == IF sided THEN w - cp_w - 7 ELSE w - 7
    IN  IF w = 0 THEN p1
        ELSE [p1 EXCEPT !.cpu.display_cnt = cp_w, !.mem.display_cnt = mm_w]

\* Process::add that stores the reported CPU value for the first sample too
ProcessAddReported(p, cpu, mem) ==
    [p EXCEPT !.cpu = CounterAdd(p.cpu, cpu), !.mem = CounterAdd(p.mem, mem)]

ProcessAdd(p, cpu, mem) ==
    LET p1 == IF p.cpu.values = <<>>
              THEN [p EXCEPT !.cpu = CounterAdd(p.cpu, 0)]
              ELSE [p EXCEPT !.cpu = CounterAdd(p.cpu, cpu)]
    IN  [p1 EXCEPT !.mem = CounterAdd(p1.mem, mem)]

\* Process::toggle_mark with the write baseline taken from the read total
ProcessToggleMarkRead(p) ==
    LET p1 == [p EXCEPT !.mem = CounterToggleMark(p.mem)]
    IN  IF p1.mark_r_io = None
        THEN [p1 EXCEPT !.mark_r_io = Some(p1.io_r_total),
                        !.mark_w_io = Some(p1.io_r_total)]
        ELSE [p1 EXCEPT !.mark_r_io = None, !.mark_w_io = None]

\* Process::toggle_mark: the memory counter and the two I/O baselines
ProcessToggleMark(p) ==
    LET p1 == [p EXCEPT !.mem = CounterToggleMark(p.mem)]
    IN  IF p1.mark_r_io = None
        THEN [p1 EXCEPT !.mark_r_io = Some(p1.io_r_total),
                        !.mark_w_io = Some(p1.io_w_total)]
        ELSE [p1 EXCEPT !.mark_r_io = None, !.mark_w_io = None]

\* Process::reset_max
ProcessResetMax(p) ==
    [p EXCEPT !.cpu = CounterResetMax(p.cpu), !.mem = CounterResetMax(p.mem)]

\* impl Ord for Process: both sd and od are read from self.dead_since
cmp(self, other) ==
    IF self.dead /\ ~other.dead THEN "Greater"
    ELSE IF ~self.dead /\ other.dead THEN "Less"
    ELSE IF self.dead
         THEN LET sd == self.dead_since[1]
                  od == self.dead_since[1]
              IN  IF sd < od THEN "Greater"
                  ELSE IF sd > od THEN "Less"
                  ELSE "Equal"
    ELSE IF self.pid > other.pid THEN "Less"
    ELSE "Greater"

----------------------------------------------------------------------------
(* config.rs: Config. graph_pos is "Auto", "Sided" or "Top"; graphs is "All", *)
(* "Mem" or "Cpu"                                                            *)

min_graph_height(graph_pos, graphs) ==
    IF graph_pos = "Top" /\ graphs = "All"
    THEN GRAPH_AREA * 2 + 2 + 2
    ELSE GRAPH_AREA + 1 + 1 + 1

max_graph_height(graph_pos, graphs) ==
    IF graph_pos = "Sided" \/ graphs # "All"
    THEN GRAPH_AREA + 1 + 1 + 1
    ELSE GRAPH_AREA * 2 + 2 + 2

\* Config::packer with < for <= in the Auto arm
packer_strict(graph_pos, graphs, proc_count, height) ==
    CASE graph_pos = "Sided" -> "Side"
      [] graph_pos = "Top" -> "Line"
      [] graph_pos = "Auto" ->
            IF max_graph_height(graph_pos, graphs) * proc_count < height
            THEN "Line" ELSE "Side"

packer(graph_pos, graphs, proc_count, height) ==
    CASE graph_pos = "Sided" -> "Side"
      [] graph_pos = "Top" -> "Line"
      [] graph_pos = "Auto" ->
            IF max_graph_height(graph_pos, graphs) * proc_count <= height
            THEN "Line" ELSE "Side"

\* Config::graph_height dividing the spare rows by proc_count - 1
graph_height_short(graph_pos, graphs, proc_count, height) ==
    LET h == IF packer(graph_pos, graphs, proc_count, height) = "Line"
             THEN max_graph_height(graph_pos, graphs)
             ELSE min_graph_height(graph_pos, graphs)
        ph == h * proc_count
    IN  IF proc_count <= 1 THEN h
        ELSE IF ph < height THEN h + (height - ph) \div (proc_count - 1)
        ELSE h

graph_height(graph_pos, graphs, proc_count, height) ==
    LET h == IF packer(graph_pos, graphs, proc_count, height) = "Line"
             THEN max_graph_height(graph_pos, graphs)
             ELSE min_graph_height(graph_pos, graphs)
        ph == h * proc_count
    IN  IF proc_count = 0 THEN h
        ELSE IF ph < height THEN h + (height - ph) \div proc_count
        ELSE h

\* Config::visible_count that shows one panel at least
visible_count_one(graph_pos, graphs, proc_count, height) ==
    LET h == graph_height(graph_pos, graphs, proc_count, height)
        vis == height \div h
    IN  IF proc_count = 0 THEN 0
        ELSE IF vis = 0 THEN 1
        ELSE IF vis < proc_count THEN vis ELSE proc_count

\* Config::visible_count rounding the quotient up
visible_count_ceil(graph_pos, graphs, proc_count, height) ==
    LET h == graph_height(graph_pos, graphs, proc_count, height)
        vis == (height + h - 1) \div h
    IN  IF vis < proc_count THEN vis ELSE proc_count

visible_count(graph_pos, graphs, proc_count, height) ==
    LET h == graph_height(graph_pos, graphs, proc_count, height)
        vis == height \div h
    IN  IF vis < proc_count THEN vis ELSE proc_count

\* the unsigned subtractions (subs: minuend, subtrahend) and the divisors
\* (divs) that graph_height and visible_count evaluate on these arguments
config_ops(graph_pos, graphs, proc_count, height) ==
    LET h0 == IF packer(graph_pos, graphs, proc_count, height) = "Line"
              THEN max_graph_height(graph_pos, graphs)
              ELSE min_graph_height(graph_pos, graphs)
        ph == h0 * proc_count
        spread == proc_count # 0 /\ ph < height
    IN  [ subs |-> IF spread THEN {<<height, ph>>} ELSE {},
          divs |-> (IF spread THEN {proc_count} ELSE {})
                      \cup {graph_height(graph_pos, graphs, proc_count, height)} ]

----------------------------------------------------------------------------
(* layout.rs: Layout *)

\* self.procs.sort(): a stable sort; an element moves left while it is less
\* than its left neighbour
is_less(a, b) == cmp(a, b) = "Less"

RECURSIVE insert_tail(_, _)
insert_tail(s, x) ==
    IF s = <<>> THEN <<x>>
    ELSE IF is_less(x, s[Len(s)])
         THEN Append(insert_tail(SubSeq(s, 1, Len(s) - 1), x), s[Len(s)])
         ELSE Append(s, x)

RECURSIVE sort(_)
sort(s) ==
    IF s = <<>> THEN <<>>
    ELSE insert_tail(sort(SubSeq(s, 1, Len(s) - 1)), s[Len(s)])

\* Layout::new for a terminal of cols x rows; pack is config.pack
NewLayout(cols, rows, pack) ==
    [ w |-> cols, h |-> rows, procs |-> <<>>, pack |-> pack,
      top_item |-> 0, mark_since |-> None ]

\* Layout::max_shown for procs panels on a terminal of rows rows
max_shown(procs, rows, pack) ==
    LET h_side == MIN_HEIGHT + 3
        h_line == MIN_HEIGHT * 2 + 4
        h == rows - 1
        max_n_l == h \div h_line
        max_n_s == h \div h_side
        sel == CASE pack = "Line" -> [cnt |-> max_n_l, hgt |-> h_line, tp |-> "Line"]
                 [] pack = "Side" -> [cnt |-> max_n_s, hgt |-> h_side, tp |-> "Side"]
                 [] pack = "Auto" ->
                        IF max_n_l >= procs
                        THEN [cnt |-> max_n_l, hgt |-> h_line, tp |-> "Line"]
                        ELSE [cnt |-> max_n_s, hgt |-> h_side, tp |-> "Side"]
        shown == IF procs < sel.cnt THEN procs ELSE sel.cnt
        used == shown * sel.hgt
    IN  IF procs # 0 /\ h - used > procs
        THEN [sel EXCEPT !.hgt = sel.hgt + (h - used) \div procs]
        ELSE sel

\* the unsigned subtractions (subs: minuend, subtrahend) and the divisors
\* (divs) that max_shown evaluates on these arguments
max_shown_ops(procs, rows, pack) ==
    LET h_side == MIN_HEIGHT + 3
        h_line == MIN_HEIGHT * 2 + 4
        h == rows - 1
        cnt == max_shown(procs, rows, pack).cnt
        hgt == IF max_shown(procs, rows, pack).tp = "Line" THEN h_line ELSE h_side
        shown == IF procs < cnt THEN procs ELSE cnt
        used == shown * hgt
    IN  [ subs |-> {<<rows, 1>>} \cup (IF procs # 0 THEN {<<h, used>>} ELSE {}),
          divs |-> {h_line, h_side}
                      \cup (IF procs # 0 /\ h - used > procs THEN {procs} ELSE {}) ]

\* Layout::place without the upper end of the window: every panel from top_item
\* on gets a rectangle
place_to_the_end(L) ==
    LET l == Len(L.procs)
        ms == max_shown(l, L.h, L.pack)
    IN  [L EXCEPT !.procs = [i \in 1..l |->
            IF (i - 1) < L.top_item
            THEN dim(L.procs[i], 0, 0, 0, 0, FALSE)
            ELSE dim(L.procs[i], 0, ((i - 1) - L.top_item) * ms.hgt + 1, L.w, ms.hgt,
                     ms.tp = "Side")]]

\* Layout::place with the header row forgotten: y starts at 0
place_no_header(L) ==
    LET l == Len(L.procs)
        ms == max_shown(l, L.h, L.pack)
    IN  [L EXCEPT !.procs = [i \in 1..l |->
            IF (i - 1) < L.top_item \/ (i - 1) >= L.top_item + ms.cnt
            THEN dim(L.procs[i], 0, 0, 0, 0, FALSE)
            ELSE dim(L.procs[i], 0, ((i - 1) - L.top_item) * ms.hgt, L.w, ms.hgt,
                     ms.tp = "Side")]]

place(L) ==
    IF L.procs = <<>> THEN L
    ELSE
    LET l == Len(L.procs)
        ms == max_shown(l, L.h, L.pack)
    IN  [L EXCEPT !.procs = [i \in 1..l |->
            IF (i - 1) < L.top_item \/ (i - 1) >= L.top_item + ms.cnt
            THEN dim(L.procs[i], 0, 0, 0, 0, FALSE)
            ELSE dim(L.procs[i], 0, ((i - 1) - L.top_item) * ms.hgt + 1, L.w, ms.hgt,
                     ms.tp = "Side")]]

size_changed(L, w, h) ==
    IF L.w = w /\ L.h = h THEN L
    ELSE place([L EXCEPT !.w = w, !.h = h])

proc_totals(L) ==
    LET total == Len(L.procs)
    IN  IF total = 0 THEN [total |-> 0, hidden |-> 0, dead |-> 0]
        ELSE [ total |-> total,
               hidden |-> Cardinality({i \in 1..total : L.procs[i].w = 0}),
               dead |-> Cardinality({i \in 1..total : L.procs[i].dead}) ]

\* update_proc: the first alive panel with the pid takes the sample, else a new
\* panel is pushed; smp is the snapshot's entry for the pid
update_proc(procs, pid, smp) ==
    LET hit == {i \in 1..Len(procs) : ~procs[i].dead /\ procs[i].pid = pid}
    IN  IF hit # {}
        THEN LET i == CHOOSE j \in hit : \A k \in hit : j <= k
                 ap == ProcessAdd(procs[i], smp.cpu, smp.mem)
             IN  [procs EXCEPT ![i] =
                    [ap EXCEPT !.io_w_total = smp.io_w, !.io_r_total = smp.io_r,
                               !.io_w_delta = smp.d_w, !.io_r_delta = smp.d_r]]
        ELSE LET ap == ProcessAdd(NewProcess(pid, FALSE), smp.cpu, smp.mem)
             IN  Append(procs, [ap EXCEPT !.io_w_total = smp.io_w,
                                          !.io_r_total = smp.io_r])

\* config.pid_list, the pids named on the command line
pid_list == <<1, 2>>

RECURSIVE update_listed(_, _, _, _)
update_listed(procs, k, alive, smp) ==
    IF k > Len(pid_list) THEN procs
    ELSE update_listed(IF pid_list[k] \in alive
                       THEN update_proc(procs, pid_list[k], smp)
                       ELSE procs,
                       k + 1, alive, smp)

\* the first loop of update_procs without its "if ap.dead { continue; }": a dead
\* panel whose pid is still missing is stamped again
mark_dead_again(procs, alive, clk, adv) ==
    [i \in 1..Len(procs) |->
        IF procs[i].pid \notin alive
        THEN [procs[i] EXCEPT
                !.dead = TRUE,
                !.dead_since = Some(clk + adv * Cardinality(
                    {j \in 1..(i - 1) : procs[j].pid \notin alive}))]
        ELSE procs[i]]

\* the first loop of update_procs without its dead_since assignment
mark_dead_unstamped(procs, alive, clk, adv) ==
    [i \in 1..Len(procs) |->
        IF ~procs[i].dead /\ procs[i].pid \notin alive
        THEN [procs[i] EXCEPT !.dead = TRUE]
        ELSE procs[i]]

\* the first loop of update_procs: every alive panel whose pid is missing from
\* the snapshot dies; the d-th death of one merge reads the clock at clk + adv * d
mark_dead(procs, alive, clk, adv) ==
    [i \in 1..Len(procs) |->
        IF ~procs[i].dead /\ procs[i].pid \notin alive
        THEN [procs[i] EXCEPT
                !.dead = TRUE,
                !.dead_since = Some(clk + adv * Cardinality(
                    {j \in 1..(i - 1) : ~procs[j].dead /\ procs[j].pid \notin alive}))]
        ELSE procs[i]]

\* Layout::update_procs followed by the cleanup that layout.rs keeps commented
\* out: dead panels are dropped after the sort
update_procs_cleanup(L, alive, smp, clk, adv) ==
    [L EXCEPT !.procs =
        SelectSeq(sort(update_listed(mark_dead(L.procs, alive, clk, adv), 1, alive, smp)),
                  LAMBDA p : ~p.dead)]

\* Layout::update_procs (pid_list branch; its None arm repeats mark_dead and
\* changes nothing after it). alive and smp are system.get_processes().
update_procs(L, alive, smp, clk, adv) ==
    [L EXCEPT !.procs =
        sort(update_listed(mark_dead(L.procs, alive, clk, adv), 1, alive, smp))]

\* Layout::toggle_mark at clock reading clk
toggle_mark(L, clk) ==
    [L EXCEPT !.mark_since = IF L.mark_since = None THEN Some(clk) ELSE None,
              !.procs = [i \in 1..Len(L.procs) |-> ProcessToggleMark(L.procs[i])]]

\* Layout::reset_max
reset_max(L) ==
    [L EXCEPT !.procs = [i \in 1..Len(L.procs) |-> ProcessResetMax(L.procs[i])]]

\* Layout::scroll: the layout after the call and the returned flag
scroll(L, shift) ==
    LET pt == proc_totals(L)
        t == pt.total
        shown == t - pt.hidden
    IN  IF pt.hidden = 0 THEN [lay |-> L, res |-> FALSE]
        ELSE IF shift = SCROLL_HOME
        THEN [lay |-> [L EXCEPT !.top_item = 0], res |-> L.top_item # 0]
        ELSE IF shift = SCROLL_END
        THEN [lay |-> [L EXCEPT !.top_item = t - shown], res |-> L.top_item < t - shown]
        ELSE IF shift < 0
        THEN IF L.top_item = 0 THEN [lay |-> L, res |-> FALSE]
             ELSE IF -shift >= L.top_item
                  THEN [lay |-> [L EXCEPT !.top_item = 0], res |-> TRUE]
                  ELSE [lay |-> [L EXCEPT !.top_item = L.top_item + shift], res |-> TRUE]
        ELSE IF shift > 0
        THEN IF L.top_item + shown >= t THEN [lay |-> L, res |-> FALSE]
             ELSE IF L.top_item + shown + shift > t
                  THEN [lay |-> [L EXCEPT !.top_item = t - shown], res |-> TRUE]
                  ELSE [lay |-> [L EXCEPT !.top_item = L.top_item + shift], res |-> TRUE]
        ELSE [lay |-> L, res |-> FALSE]

----------------------------------------------------------------------------
(* Inputs *)

Packs == {"Auto", "Side", "Line"}
\* terminal sizes: panel capacity 1, 2, 3 side by side and 0, 1, 1 stacked
Cols == {MinCols}
Rows == {MinRows, MinRows + 8, MinRows + 16}
Pids == {1, 2}
Shifts == {SCROLL_HOME, SCROLL_END} \cup ((-MaxShift)..MaxShift)

\* what system.get_processes() reports for a process: cpu %, memory and disk usage in KB
Samples ==
    { [cpu |-> 10, mem |-> 2000, io_r |-> 4, io_w |-> 2, d_r |-> 1, d_w |-> 0] }

IdleCounter == DefaultCounter
IdleProcess == NewProcess(0, FALSE)
IdleLayout == NewLayout(MinCols, MinRows, "Auto")
NoPack == [n |-> 0, rows |-> MinRows, graph_pos |-> "Auto", graphs |-> "All"]

LayoutIdle ==
    /\ lay = IdleLayout /\ pc = "idle" /\ now = 0 /\ ticks = 0
    /\ scroll_res = FALSE
CounterIdle == ctr = IdleCounter /\ added = <<>>
ProcIdle == proc = IdleProcess
PackIdle == pk_in = NoPack /\ pk_out = None
IdleRun == [lay |-> IdleLayout, now |-> 0]
IdleGfx == [w |-> 0, h |-> 0, detail |-> "High", scale_max |-> FALSE]
RunIdle == run2 = IdleRun
GfxIdle == gfx = IdleGfx
CallIdle == call = None /\ ret = None
IdleTimer == [tm |-> 0, wait |-> 0, merged |-> 0, ev |-> "none"]
TimerIdle == tmr = IdleTimer
AuxIdle == RunIdle /\ GfxIdle /\ CallIdle /\ TimerIdle

layoutVars == <<lay, pc, now, ticks, scroll_res>>
auxVars == <<run2, gfx, call, ret, tmr>>
otherVars == <<mode, ctr, added, proc, pk_in, pk_out, run2, gfx, call, ret, tmr>>

----------------------------------------------------------------------------
(* main.rs: process_events *)

\* Layout::update, one snapshot merge: alive pids report smp; the clock moves on
Merge(L, alive, smp, adv) ==
    /\ ticks < MaxTicks
    /\ LET L1 == update_procs(L, alive, smp, now, adv)
           deaths == Cardinality({i \in 1..Len(L.procs) :
                                     ~L.procs[i].dead /\ L.procs[i].pid \notin alive})
       IN  /\ Len(L1.procs) <= MaxPanels
           /\ lay' = place(L1)
           /\ now' = now + 1 + adv * deaths
    /\ ticks' = ticks + 1

\* lines 98-106 of the loop body: L is the layout after the event was handled
Redraw(L, force_redraw, must_update) ==
    IF must_update
    THEN \E alive \in SUBSET Pids, smp \in Samples, adv \in 0..1 :
            Merge(L, alive, smp, adv)
    ELSE /\ lay' = IF force_redraw THEN place(L) ELSE L
         /\ UNCHANGED <<now, ticks>>

\* lines 26-27: the first update and place, before the loop
Startup ==
    /\ mode \in {"layout", "scroll", "keys"} /\ pc = "start"
    /\ \E alive \in SUBSET Pids, smp \in Samples, adv \in 0..1 :
          Merge(lay, alive, smp, adv)
    /\ pc' = "loop"
    /\ UNCHANGED <<scroll_res>>
    /\ UNCHANGED otherVars

\* poll() timed out: the refresh interval has elapsed
Timeout ==
    /\ mode \in {"layout", "scroll", "keys"} /\ pc \in {"loop", "frozen"}
    /\ Redraw(lay, FALSE, TRUE)
    /\ pc = "frozen" => Len(lay'.procs) = Len(lay.procs)
    /\ scroll_res' = FALSE
    /\ UNCHANGED <<pc>>
    /\ UNCHANGED otherVars

\* a scroll key: force_redraw = lay.scroll(..)
KeyScroll ==
    /\ mode = "layout" /\ pc = "loop"
    /\ \E shift \in Shifts, must_update \in BOOLEAN :
          LET r == scroll(lay, shift)
          IN  /\ Redraw(r.lay, r.res, must_update)
              /\ scroll_res' = r.res
    /\ UNCHANGED <<pc>>
    /\ UNCHANGED otherVars

\* Event::Resize(width, height) with a size the program accepts. size_changed
\* ends with place, so an iteration whose timer has also elapsed equals this
\* step followed by Timeout.
Resize ==
    /\ mode \in {"layout", "scroll", "keys"} /\ pc = "loop"
    /\ \E width \in Cols, height \in Rows :
          Redraw(size_changed(lay, width, height), TRUE, FALSE)
    /\ scroll_res' = FALSE
    /\ UNCHANGED <<pc>>
    /\ UNCHANGED otherVars

Init ==
    /\ mode = "layout"
    /\ \E cols \in Cols, rows \in Rows, pack \in Packs : lay = NewLayout(cols, rows, pack)
    /\ pc = "start" /\ now = 0 /\ ticks = 0
    /\ scroll_res = FALSE
    /\ CounterIdle /\ ProcIdle /\ PackIdle /\ AuxIdle

Next == Startup \/ Timeout \/ KeyScroll \/ Resize

Spec == Init /\ [][Next]_vars

----------------------------------------------------------------------------
(* The event loop up to a point (pc = "frozen") after which the terminal is  *)
(* not resized, the snapshots bring no new panel and the user only presses   *)
(* Down. A key press that is pending is handled: Down is weakly fair.        *)

InitScroll ==
    /\ mode = "scroll"
    /\ \E cols \in Cols, rows \in Rows, pack \in Packs : lay = NewLayout(cols, rows, pack)
    /\ pc = "start" /\ now = 0 /\ ticks = 0
    /\ scroll_res = FALSE
    /\ CounterIdle /\ ProcIdle /\ PackIdle /\ AuxIdle

Freeze ==
    /\ mode = "scroll" /\ pc = "loop"
    /\ pc' = "frozen"
    /\ UNCHANGED <<lay, now, ticks, scroll_res>>
    /\ UNCHANGED otherVars

\* KeyCode::Down: lay.scroll(1)
DownOne ==
    /\ mode = "scroll" /\ pc \in {"loop", "frozen"}
    /\ LET r == scroll(lay, 1)
       IN  /\ Redraw(r.lay, r.res, FALSE)
           /\ scroll_res' = r.res
    /\ UNCHANGED <<pc>>
    /\ UNCHANGED otherVars

\* KeyCode::PageDown: lay.scroll(n) for a larger step
DownPage ==
    /\ mode = "scroll" /\ pc \in {"loop", "frozen"}
    /\ \E shift \in 2..MaxShift :
          LET r == scroll(lay, shift)
          IN  /\ Redraw(r.lay, r.res, FALSE)
              /\ scroll_res' = r.res
    /\ UNCHANGED <<pc>>
    /\ UNCHANGED otherVars

NextScroll == Startup \/ Timeout \/ Resize \/ Freeze \/ DownOne \/ DownPage

SpecScroll == InitScroll /\ [][NextScroll]_vars /\ WF_vars(DownOne)

----------------------------------------------------------------------------
(* Scroll window and placement (layout.rs) *)

Total == Len(lay.procs)

\* the packer's answer for the current panel count and terminal size
Packed == max_shown(Total, lay.h, lay.pack)

\* the number of panels that fit: "shown" of max_shown
VisibleCount == Min(Total, Packed.cnt)

Hidden == proc_totals(lay).hidden

\* C3: top_item always lies in [0, total - visibleCount].
C3_TopItemInRange ==
    lay.top_item \in 0..(Total - VisibleCount)

\* C4: every scroll operation returns true exactly when it changes top_item, and
\* when no panel is hidden (visibleCount = total) it returns false and changes
\* nothing.
C4_ScrollReportsChange ==
    \A shift \in Shifts :
        LET r == scroll(lay, shift)
        IN  /\ r.res <=> (r.lay.top_item # lay.top_item)
            /\ VisibleCount = Total => (~r.res /\ r.lay = lay)

\* C7: after place, exactly the panels at top_item <= i < top_item + visibleCount
\* have a rectangle, (0, (i - top_item) * panelHeight + 1, W, panelHeight) with
\* sided from the packing mode; every other panel has the zero rectangle.
C7_PlacedRectangles ==
    pc = "loop" =>
        \A i \in 0..(Total - 1) :
            LET p == lay.procs[i + 1]
            IN  IF lay.top_item <= i /\ i < lay.top_item + VisibleCount
                THEN /\ p.w # 0
                     /\ p.x = 0 /\ p.y = (i - lay.top_item) * Packed.hgt + 1
                     /\ p.w = lay.w /\ p.h = Packed.hgt
                     /\ p.sided = (Packed.tp = "Side")
                ELSE p.x = 0 /\ p.y = 0 /\ p.w = 0 /\ p.h = 0

\* two panels are shown below a hidden one, and a fourth is hidden after them
C7_Witness ==
    /\ pc = "loop" /\ Total = 4 /\ lay.top_item = 1 /\ VisibleCount = 2
    /\ lay.procs[2].w # 0 /\ lay.procs[3].y > lay.procs[2].y
    /\ lay.procs[4].w = 0

\* C10: in the sorted panel list a dead panel never precedes an alive one, and
\* of two dead panels the one that died later precedes the one that died earlier.
C10_DeadOrder ==
    \A i, j \in 1..Total :
        i < j =>
            /\ ~(lay.procs[i].dead /\ ~lay.procs[j].dead)
            /\ (lay.procs[i].dead /\ lay.procs[j].dead) =>
                   lay.procs[i].dead_since[1] >= lay.procs[j].dead_since[1]

\* C5: with the panel count and the terminal size fixed and a panel hidden (a
\* panel has no rectangle, and more panels are tracked than fit), repeated
\* Down(1) reaches top_item = total - visibleCount, and from there every Down
\* returns "unchanged" and leaves top_item where it is.
C5_DownReachesEnd ==
    /\ (pc = "frozen" /\ Hidden > 0 /\ Total > VisibleCount)
          ~> (lay.top_item = Total - VisibleCount)
    /\ [][(pc = "frozen" /\ lay.top_item = Total - VisibleCount)
            => (lay'.top_item = lay.top_item /\ ~scroll_res')]_vars

----------------------------------------------------------------------------
(* A Counter on its own: its capacity is set once and samples are added *)

InitCounter ==
    /\ mode = "counter"
    /\ \E c \in 1..MaxCap, fixed \in BOOLEAN :
          ctr = IF fixed
                THEN [DefaultCounter EXCEPT !.display_cnt = c, !.scale_to = CpuScale]
                ELSE [DefaultCounter EXCEPT !.display_cnt = c, !.auto_scale = TRUE]
    /\ added = <<>>
    /\ LayoutIdle /\ ProcIdle /\ PackIdle /\ AuxIdle

AddSample ==
    /\ mode = "counter"
    /\ Len(added) < MaxAdds
    /\ \E val \in 0..MaxSample :
          /\ ctr' = CounterAdd(ctr, val)
          /\ added' = Append(added, val)
    /\ UNCHANGED <<mode, proc, pk_in, pk_out>>
    /\ UNCHANGED layoutVars
    /\ UNCHANGED auxVars

NextCounter == AddSample

SpecCounter == InitCounter /\ [][NextCounter]_vars

\* C1: once more than display_cnt samples were added, values holds exactly the
\* display_cnt most recent ones, oldest first.
C1_KeepsMostRecent ==
    LET c == ctr.display_cnt
        n == Len(added)
    IN  n > c => /\ Len(ctr.values) = c
                 /\ ctr.values = SubSeq(added, n - c + 1, n)

\* a buffer of capacity 2 or more has dropped at least two samples and holds
\* samples that differ
C1_Witness ==
    /\ mode = "counter" /\ ctr.display_cnt >= 2
    /\ Len(added) >= ctr.display_cnt + 2
    /\ ctr.values[1] # ctr.values[2]
    /\ added[1] # ctr.values[1]

----------------------------------------------------------------------------
(* A Process on its own: samples arrive while the packer moves and resizes it *)

\* what the snapshot reports for the process: cpu % and memory in KB
ProcSamples == { [cpu |-> 10, mem |-> 2000], [cpu |-> 150, mem |-> 1056] }

\* terminal widths the program accepts
ProcCols == {MinCols, MinCols + 2}

InitProc ==
    /\ mode = "proc"
    /\ proc = NewProcess(1, FALSE)
    /\ LayoutIdle /\ CounterIdle /\ PackIdle /\ AuxIdle

\* Process::add from update_proc
ProcAdd ==
    /\ mode = "proc"
    /\ Len(proc.mem.values) < MaxProcAdds
    /\ \E smp \in ProcSamples : proc' = ProcessAdd(proc, smp.cpu, smp.mem)
    /\ UNCHANGED <<mode, ctr, added, pk_in, pk_out>>
    /\ UNCHANGED layoutVars
    /\ UNCHANGED auxVars

\* Process::dim from Layout::place for a visible panel: stacked or side by
\* side, at the first row below the header
ProcDim ==
    /\ mode = "proc"
    /\ \E w \in ProcCols, sided \in BOOLEAN :
          proc' = dim(proc, 0, 1, w,
                      IF sided THEN MIN_HEIGHT + 3 ELSE MIN_HEIGHT * 2 + 4, sided)
    /\ UNCHANGED <<mode, ctr, added, pk_in, pk_out>>
    /\ UNCHANGED layoutVars
    /\ UNCHANGED auxVars

\* Process::dim from Layout::place for a panel scrolled out of view
ProcHide ==
    /\ mode = "proc"
    /\ proc' = dim(proc, 0, 0, 0, 0, FALSE)
    /\ UNCHANGED <<mode, ctr, added, pk_in, pk_out>>
    /\ UNCHANGED layoutVars
    /\ UNCHANGED auxVars

NextProc == ProcAdd \/ ProcDim \/ ProcHide

SpecProc == InitProc /\ [][NextProc]_vars

\* C2: the buffer of each counter never holds more than display_cnt samples.
C2_LenWithinCapacity ==
    /\ Len(proc.cpu.values) <= proc.cpu.display_cnt
    /\ Len(proc.mem.values) <= proc.mem.display_cnt

----------------------------------------------------------------------------
(* The layout packer as a function of panel count, terminal rows and the    *)
(* two preferences                                                          *)

GraphPositions == {"Auto", "Sided", "Top"}
GraphModes == {"All", "Mem", "Cpu"}

\* config.pack of layout.rs for a graph_pos of config.rs
PackOf(graph_pos) ==
    CASE graph_pos = "Auto" -> "Auto"
      [] graph_pos = "Sided" -> "Side"
      [] graph_pos = "Top" -> "Line"

InitPacker ==
    /\ mode = "packer"
    /\ pk_in \in [n : 0..MaxPackProcs, rows : MinRows..MaxPackRows,
                  graph_pos : GraphPositions, graphs : GraphModes]
    /\ pk_out = None
    /\ LayoutIdle /\ CounterIdle /\ ProcIdle /\ AuxIdle

\* the rows below the totals header
AvailRows == pk_in.rows - 1

\* both packers run on pk_in: Config::packer, graph_height and visible_count,
\* and Layout::max_shown with the Layout::place of pk_in.n panels
RunPacker ==
    /\ mode = "packer" /\ pk_out = None
    /\ pk_out' = Some(
          [ pack |-> packer(pk_in.graph_pos, pk_in.graphs, pk_in.n, AvailRows),
            height |-> graph_height(pk_in.graph_pos, pk_in.graphs, pk_in.n, AvailRows),
            visible |-> visible_count(pk_in.graph_pos, pk_in.graphs, pk_in.n, AvailRows),
            shown |-> max_shown(pk_in.n, pk_in.rows, PackOf(pk_in.graph_pos)),
            placed |-> place([NewLayout(MinCols, pk_in.rows, PackOf(pk_in.graph_pos))
                              EXCEPT !.procs = [i \in 1..pk_in.n |->
                                                  NewProcess(i, FALSE)]]).procs ])
    /\ UNCHANGED <<mode, ctr, added, proc, pk_in>>
    /\ UNCHANGED layoutVars
    /\ UNCHANGED auxVars

\* F6, config.switch_graphs: the next graph selection, packed afresh
SwitchGraphs ==
    /\ mode = "packer" /\ pk_out # None
    /\ pk_in' = [pk_in EXCEPT !.graphs = CASE pk_in.graphs = "All" -> "Mem"
                                           [] pk_in.graphs = "Mem" -> "Cpu"
                                           [] pk_in.graphs = "Cpu" -> "All"]
    /\ pk_out' = None
    /\ UNCHANGED <<mode, ctr, added, proc>>
    /\ UNCHANGED layoutVars
    /\ UNCHANGED auxVars

NextPacker == RunPacker \/ SwitchGraphs

SpecPacker == InitPacker /\ [][NextPacker]_vars

Out == pk_out[1]

\* the number of panels Layout::max_shown lets place show
ShownCount == Min(pk_in.n, Out.shown.cnt)

\* the minimum panel height of a packing mode: stacked with both graphs, or
\* side by side or a single graph
BaseHeight(tp, graphs) ==
    IF tp = "Line" /\ graphs = "All" THEN 2 * GRAPH_AREA + 4 ELSE GRAPH_AREA + 3

\* the spare rows divided by the visible count, as the height distribution is described
SpreadHeight(base, visible) ==
    base + (AvailRows - base * visible) \div visible

\* C6: visibleCount <= n, visibleCount * panelHeight <= H, and when
\* visibleCount < n also (visibleCount + 1) * panelHeight > H.
C6_VisibleCountFits ==
    pk_out # None =>
        /\ Out.visible <= pk_in.n
        /\ Out.visible * Out.height <= AvailRows
        /\ Out.visible < pk_in.n => (Out.visible + 1) * Out.height > AvailRows
        /\ ShownCount <= pk_in.n
        /\ ShownCount * Out.shown.hgt <= AvailRows
        /\ ShownCount < pk_in.n => (ShownCount + 1) * Out.shown.hgt > AvailRows

\* some but not all panels fit, in both packers
C6_Witness ==
    /\ pk_out # None
    /\ 1 < Out.visible /\ Out.visible < pk_in.n
    /\ 1 < ShownCount /\ ShownCount < pk_in.n

\* C8: under Auto the packer stacks exactly when stackedHeight * n <= H; under
\* Sided / Top it always packs side by side / stacked.
C8_PackingDecision ==
    pk_out # None =>
        /\ pk_in.graph_pos = "Auto" =>
              /\ (Out.pack = "Line") <=>
                    (BaseHeight("Line", pk_in.graphs) * pk_in.n <= AvailRows)
              /\ (Out.shown.tp = "Line") <=>
                    ((MIN_HEIGHT * 2 + 4) * pk_in.n <= AvailRows)
              /\ Out.pack \in {"Line", "Side"} /\ Out.shown.tp \in {"Line", "Side"}
        /\ pk_in.graph_pos = "Sided" => (Out.pack = "Side" /\ Out.shown.tp = "Side")
        /\ pk_in.graph_pos = "Top" => (Out.pack = "Line" /\ Out.shown.tp = "Line")

\* under Auto, two or more stacked panels fill the rows exactly
C8_Witness ==
    /\ pk_out # None /\ pk_in.graph_pos = "Auto" /\ pk_in.graphs = "All"
    /\ pk_in.n >= 2 /\ BaseHeight("Line", "All") * pk_in.n = AvailRows
    /\ Out.pack = "Line" /\ Out.shown.tp = "Line"

\* C9 as stated: whenever a panel is visible, the panel height is
\* baseHeight + floor((H - baseHeight * visibleCount) / visibleCount).
C9_SpreadOverVisible ==
    pk_out # None =>
        /\ Out.visible >= 1 =>
              Out.height = SpreadHeight(BaseHeight(Out.pack, pk_in.graphs), Out.visible)
        /\ ShownCount >= 1 =>
              Out.shown.hgt = SpreadHeight(BaseHeight(Out.shown.tp, "All"), ShownCount)

\* C9 amended: Config::graph_height spreads the spare rows only when all n
\* panels fit, and returns the base height otherwise; Layout::max_shown adds
\* floor(spare / n) for the spare rows left by the shown panels, and only when
\* spare > n.
C9_SpreadWhenAllFit ==
    pk_out # None /\ pk_in.n >= 1 =>
        /\ Out.visible = pk_in.n =>
              Out.height = SpreadHeight(BaseHeight(Out.pack, pk_in.graphs), pk_in.n)
        /\ Out.visible < pk_in.n =>
              Out.height = BaseHeight(Out.pack, pk_in.graphs)
        /\ LET base == BaseHeight(Out.shown.tp, "All")
               spare == AvailRows - base * ShownCount
           IN  Out.shown.hgt = base + (IF spare > pk_in.n THEN spare \div pk_in.n ELSE 0)

\* all panels fit with rows to spare, and both packers grow the panels
C9_Witness ==
    /\ pk_out # None /\ pk_in.n >= 2
    /\ Out.visible = pk_in.n /\ ShownCount = pk_in.n
    /\ Out.height > BaseHeight(Out.pack, pk_in.graphs)
    /\ Out.shown.hgt > BaseHeight(Out.shown.tp, "All")

----------------------------------------------------------------------------
(* Two runs of the program side by side on terminals of the same size: each  *)
(* merges its own snapshots at its own clock readings                         *)

\* the number of panels a merge marks dead
deaths(procs, alive) ==
    Cardinality({i \in 1..Len(procs) : ~procs[i].dead /\ procs[i].pid \notin alive})

\* Layout::update and Layout::place of the second run
RunMerge(r, alive, smp, adv) ==
    [ lay |-> place(update_procs(r.lay, alive, smp, r.now, adv)),
      now |-> r.now + 1 + adv * deaths(r.lay.procs, alive) ]

InitOrder ==
    /\ mode = "order"
    /\ \E cols \in Cols, rows \in Rows, pack \in Packs :
          /\ lay = NewLayout(cols, rows, pack)
          /\ run2 = [lay |-> NewLayout(cols, rows, pack), now |-> 0]
    /\ pc = "start" /\ now = 0 /\ ticks = 0
    /\ scroll_res = FALSE
    /\ CounterIdle /\ ProcIdle /\ PackIdle /\ GfxIdle /\ CallIdle /\ TimerIdle

\* one refresh interval: each run merges the snapshot it sees
MergeBoth ==
    /\ mode = "order"
    /\ \E alive \in SUBSET Pids, alive2 \in SUBSET Pids, smp \in Samples,
          adv \in 0..1, adv2 \in 0..1 :
          /\ Merge(lay, alive, smp, adv)
          /\ run2' = RunMerge(run2, alive2, smp, adv2)
          /\ Len(run2'.lay.procs) <= MaxPanels
    /\ pc' = "loop"
    /\ UNCHANGED <<scroll_res, mode, ctr, added, proc, pk_in, pk_out, gfx, call, ret, tmr>>

NextOrder == MergeBoth

SpecOrder == InitOrder /\ [][NextOrder]_vars

\* what the ordering of panels is said to depend on
PanelKey(p) == [pid |-> p.pid, dead |-> p.dead, dead_since |-> p.dead_since]

Keys(procs) == [i \in 1..Len(procs) |-> PanelKey(procs[i])]

KeySet(procs) == {PanelKey(procs[i]) : i \in 1..Len(procs)}

\* C11: two runs that track the same set of panels (same ids, liveness and
\* death times) have their panels in the same order after the merge and sort.
C11_OrderDetermined ==
    (/\ Len(lay.procs) = Len(run2.lay.procs)
     /\ KeySet(lay.procs) = KeySet(run2.lay.procs))
        => Keys(lay.procs) = Keys(run2.lay.procs)

----------------------------------------------------------------------------
(* Panel lifecycle (layout.rs: update_procs, update_proc) *)

DeadKeys(procs) == {PanelKey(procs[i]) : i \in {j \in 1..Len(procs) : procs[j].dead}}

AlivePids(procs) == {procs[i].pid : i \in {j \in 1..Len(procs) : ~procs[j].dead}}

\* C12: a panel is marked dead, with dead_since read from the clock, at the first
\* merge in which its pid is absent; a dead panel stays dead with the same
\* dead_since, and a pid that comes back is tracked by a new panel.
C12_DeadOnceForever ==
    [][ /\ DeadKeys(lay.procs) \subseteq DeadKeys(lay'.procs)
        /\ \A k \in DeadKeys(lay'.procs) \ DeadKeys(lay.procs) :
              /\ k.pid \in AlivePids(lay.procs) \ AlivePids(lay'.procs)
              /\ now <= k.dead_since[1] /\ k.dead_since[1] < now'
        /\ \A pid \in AlivePids(lay.procs) \ AlivePids(lay'.procs) :
              \E k \in DeadKeys(lay'.procs) \ DeadKeys(lay.procs) : k.pid = pid
        /\ \A i \in 1..Len(lay'.procs) :
              (~lay'.procs[i].dead /\ lay'.procs[i].pid \notin AlivePids(lay.procs))
                  => /\ Len(lay'.procs) > Len(lay.procs)
                     /\ Len(lay'.procs[i].mem.values) = 1
        /\ Cardinality({i \in 1..Len(lay'.procs) : lay'.procs[i].dead})
              = Cardinality(DeadKeys(lay'.procs))
      ]_vars

\* a panel died in an earlier merge, has kept its dead_since through a later
\* merge, and its pid is back in a panel of its own
C12_Witness ==
    \E i, j \in 1..Len(lay.procs) :
        /\ lay.procs[i].dead /\ ~lay.procs[j].dead
        /\ lay.procs[i].pid = lay.procs[j].pid
        /\ lay.procs[i].dead_since[1] + 1 < now

----------------------------------------------------------------------------
(* The event loop with the mark and reset keys as well *)

InitKeys ==
    /\ mode = "keys"
    /\ \E cols \in Cols, rows \in Rows, pack \in Packs : lay = NewLayout(cols, rows, pack)
    /\ pc = "start" /\ now = 0 /\ ticks = 0
    /\ scroll_res = FALSE
    /\ CounterIdle /\ ProcIdle /\ PackIdle /\ AuxIdle

\* KeyCode::Char(' '): lay.toggle_mark(), then a forced redraw
KeyMark ==
    /\ mode = "keys" /\ pc = "loop"
    /\ Redraw(toggle_mark(lay, now), TRUE, FALSE)
    /\ scroll_res' = TRUE
    /\ UNCHANGED <<pc>>
    /\ UNCHANGED otherVars

\* KeyCode::Char('r'): lay.reset_max(), then a forced redraw
KeyReset ==
    /\ mode = "keys" /\ pc = "loop"
    /\ Redraw(reset_max(lay), TRUE, FALSE)
    /\ scroll_res' = TRUE
    /\ UNCHANGED <<pc>>
    /\ UNCHANGED otherVars

\* poll() timed out, for the first MaxKeyTicks snapshot merges
KeysTimeout ==
    /\ ticks < MaxKeyTicks
    /\ Timeout

\* a scroll key pressed before the refresh interval has elapsed; with the
\* interval elapsed the iteration equals this step followed by KeysTimeout
KeysScroll ==
    /\ mode = "keys" /\ pc = "loop"
    /\ \E shift \in Shifts :
          LET r == scroll(lay, shift)
          IN  /\ Redraw(r.lay, r.res, FALSE)
              /\ scroll_res' = r.res
    /\ UNCHANGED <<pc>>
    /\ UNCHANGED otherVars

NextKeys == Startup \/ KeysTimeout \/ KeysScroll \/ Resize \/ KeyMark \/ KeyReset

SpecKeys == InitKeys /\ [][NextKeys]_vars

\* C13: no merge, placement, resize, scroll, mark toggle or reset_max removes a
\* panel: the number of tracked panels never decreases, and every panel that was
\* tracked is still tracked.
C13_PanelsNeverRemoved ==
    [][ /\ Len(lay'.procs) >= Len(lay.procs)
        /\ \A i \in 1..Len(lay.procs) :
              \E j \in 1..Len(lay'.procs) :
                  /\ lay'.procs[j].pid = lay.procs[i].pid
                  /\ lay.procs[i].dead =>
                        (lay'.procs[j].dead /\ lay'.procs[j].dead_since = lay.procs[i].dead_since)
      ]_vars

\* the mark is set and reset_max has lowered a maximum while a dead panel is
\* still tracked beside an alive one
C13_Witness ==
    /\ mode = "keys" /\ lay.mark_since # None /\ Len(lay.procs) >= 2
    /\ \E i \in 1..Len(lay.procs) : lay.procs[i].dead
    /\ \E i \in 1..Len(lay.procs) :
          ~lay.procs[i].dead /\ lay.procs[i].cpu.max < SeqMax(lay.procs[i].cpu.values)

----------------------------------------------------------------------------
(* One Counter, drawn: samples arrive, draw_counter draws it into its screen
   at the size the panel gives it and with the Config in gfx, F6 resets its
   maximum. Config.scale_max is read for an auto-scaled counter only, so a
   fixed-scale counter is run with its default. *)

Details == {"Low", "Medium", "High"}
GraphWidths == {2, 3}
GraphHeights == {2, 3}
GraphSamples == {0, 2, 49, 200, 1056}

InitGraph ==
    /\ mode = "graph"
    /\ \E auto \in BOOLEAN, w \in GraphWidths, h \in GraphHeights,
          detail \in Details :
       \E sm \in IF auto THEN BOOLEAN ELSE {FALSE} :
          /\ gfx = [w |-> w, h |-> h, detail |-> detail, scale_max |-> sm]
          /\ \E cnt \in {w - 1, w + 1} :
                ctr = IF auto
                      THEN [DefaultCounter EXCEPT !.display_cnt = cnt,
                                                  !.auto_scale = TRUE]
                      ELSE [DefaultCounter EXCEPT !.display_cnt = cnt,
                                                  !.scale_to = CpuScale]
    /\ added = <<>>
    /\ LayoutIdle /\ ProcIdle /\ PackIdle /\ RunIdle /\ CallIdle /\ TimerIdle

\* Process::add on one counter
GraphAdd ==
    /\ mode = "graph"
    /\ Len(added) < MaxGraphAdds
    /\ \E val \in GraphSamples :
          /\ ctr' = CounterAdd(ctr, val)
          /\ added' = Append(added, val)
    /\ UNCHANGED <<mode, proc, pk_in, pk_out, run2, gfx, call, ret, tmr>>
    /\ UNCHANGED layoutVars

\* draw_counter: calculate_range, then update at the graph's size
GraphDraw ==
    /\ mode = "graph"
    /\ ctr' = update(calculate_range(ctr), gfx.w, gfx.h, gfx)
    /\ UNCHANGED <<mode, added, proc, pk_in, pk_out, run2, gfx, call, ret, tmr>>
    /\ UNCHANGED layoutVars

\* F6 on one counter
GraphResetMax ==
    /\ mode = "graph"
    /\ ctr' = CounterResetMax(ctr)
    /\ UNCHANGED <<mode, added, proc, pk_in, pk_out, run2, gfx, call, ret, tmr>>
    /\ UNCHANGED layoutVars

NextGraph == GraphAdd \/ GraphDraw \/ GraphResetMax

SpecGraph == InitGraph /\ [][NextGraph]_vars

\* the counter has been drawn, at the size gfx.w x gfx.h
Drawn == ctr.screen # <<>>

\* the samples a graph of width n shows
Shown(c, n) ==
    IF Len(c.values) <= n THEN c.values
    ELSE SubSeq(c.values, Len(c.values) - n + 1, Len(c.values))

\* the smallest multiple of 100 that is >= v
LeastHundred(v) ==
    CHOOSE m \in 0..(v + 100) : m % 100 = 0 /\ m >= v /\ m - 100 < v

\* C14: reset_max sets max to the largest of the last `width` samples, width
\* being the width the graph is rendered at, and gives a fixed-scale counter
\* that maximum rounded up to the next multiple of 100, or 100 when it is 0.
C14_ResetMaxOverWidth ==
    (mode = "graph" /\ Drawn) =>
        LET c == CounterResetMax(ctr)
            m == SeqMax(Shown(ctr, gfx.w))
        IN  /\ c.max = m
            /\ ctr.scale_to # 0 =>
                  c.scale_to = IF m = 0 THEN 100 ELSE LeastHundred(m)

----------------------------------------------------------------------------
(* One panel: snapshots refresh its samples and I/O totals, the space key
   toggles its mark. *)

MarkSamples ==
    { [cpu |-> 10, mem |-> m, io_r |-> r, io_w |-> w, d_r |-> 1, d_w |-> 0] :
        m \in {1056, 2000}, r \in {4, 9}, w \in {2, 7} }

InitMark ==
    /\ mode = "mark"
    /\ \E smp \in MarkSamples : proc = update_proc(<<>>, 1, smp)[1]
    /\ LayoutIdle /\ CounterIdle /\ PackIdle /\ AuxIdle

\* update_proc for the panel's process
MarkSample ==
    /\ mode = "mark"
    /\ Len(proc.mem.values) < MaxMarkAdds
    /\ \E smp \in MarkSamples : proc' = update_proc(<<proc>>, proc.pid, smp)[1]
    /\ UNCHANGED <<mode, ctr, added, pk_in, pk_out>>
    /\ UNCHANGED layoutVars
    /\ UNCHANGED auxVars

\* Layout::toggle_mark for the panel
MarkToggle ==
    /\ mode = "mark"
    /\ proc' = ProcessToggleMark(proc)
    /\ UNCHANGED <<mode, ctr, added, pk_in, pk_out>>
    /\ UNCHANGED layoutVars
    /\ UNCHANGED auxVars

NextMark == MarkSample \/ MarkToggle

SpecMark == InitMark /\ [][NextMark]_vars

\* the baselines of a panel: CPU counter, memory counter, I/O read and write
Marks(p) == <<p.cpu.mark_value, p.mem.mark_value, p.mark_r_io, p.mark_w_io>>

\* C15 (as stated): the CPU, memory and I/O read/write baselines of a panel are
\* all set or all unset together.
C15_AllMarksTogether ==
    mode = "mark" =>
        \/ \A i \in 1..4 : Marks(proc)[i] = None
        \/ \A i \in 1..4 : Marks(proc)[i] # None

\* C15 (amended): the memory and the I/O read/write baselines are set or unset
\* together, the CPU baseline is never set; a step that sets them stores the
\* latest memory sample and the cumulative I/O totals of that moment, a step
\* that clears them clears all three, and no other step changes them.
C15_MemAndIoMarksTogether ==
    [][ mode = "mark" =>
          /\ proc'.cpu.mark_value = None
          /\ \/ \A i \in 2..4 : Marks(proc')[i] = None
             \/ \A i \in 2..4 : Marks(proc')[i] # None
          /\ Marks(proc') # Marks(proc) =>
                /\ proc'.mem.values = proc.mem.values
                /\ proc'.io_r_total = proc.io_r_total
                /\ proc'.io_w_total = proc.io_w_total
                /\ IF proc.mark_r_io = None
                   THEN Marks(proc') = <<None, Some(last(proc.mem)),
                                         Some(proc.io_r_total), Some(proc.io_w_total)>>
                   ELSE Marks(proc') = <<None, None, None, None>>
          /\ proc'.mem.values # proc.mem.values => Marks(proc') = Marks(proc)
      ]_vars

\* the mark was set, later samples moved the memory and both I/O totals away
\* from the baselines, and the read and write baselines differ
C15_Witness ==
    /\ mode = "mark"
    /\ proc.mark_r_io # None /\ proc.mark_w_io # None /\ proc.mem.mark_value # None
    /\ proc.mark_r_io # proc.mark_w_io
    /\ proc.mark_r_io # Some(proc.io_r_total)
    /\ proc.mark_w_io # Some(proc.io_w_total)
    /\ proc.mem.mark_value # Some(last(proc.mem))

\* C16 (as stated): an auto-scaled Counter has gmin < gmax in every reachable
\* state, before the first sample included.
C16_RangeNeverEmpty ==
    (mode = "graph" /\ ctr.auto_scale) => ctr.gmin < ctr.gmax

\* C16 (amended): an auto-scaled Counter keeps gmin = gmax = 0 while it has no
\* sample, and has either that initial range or gmin < gmax afterwards; every
\* calculate_range on a non-empty buffer leaves gmin < gmax, with every
\* retained sample between the two.
C16_RangeAfterCalculate ==
    (mode = "graph" /\ ctr.auto_scale) =>
        /\ ctr.values = <<>> => (ctr.gmin = 0 /\ ctr.gmax = 0)
        /\ ctr.gmin < ctr.gmax \/ (ctr.gmin = 0 /\ ctr.gmax = 0)
        /\ ctr.values # <<>> =>
              LET c == calculate_range(ctr)
              IN  /\ c.gmin < c.gmax
                  /\ c.gmin <= SeqMin(ctr.values)
                  /\ SeqMax(ctr.values) <= c.gmax

\* a drawn auto-scaled counter whose smallest sample 2 and largest sample 1056
\* round to the same digit 2, in the buckets 1 and 1024
C16_Witness ==
    /\ mode = "graph" /\ ctr.auto_scale /\ Drawn /\ ctr.values # <<>>
    /\ SeqMin(ctr.values) = 2 /\ SeqMax(ctr.values) = 1056
    /\ ctr.gmin = 2 /\ ctr.gmax = 3 * 1024

\* C17: add(v) on a fixed-scale counter (scale_to # 0) with v > scale_to sets
\* scale_to to the smallest multiple of 100 that is >= v, with v <= scale_to it
\* leaves scale_to alone; an auto-scaled counter with scale_to = 0 keeps 0.
C17_AddRescales ==
    [][ (mode = "graph" /\ added' # added) =>
          LET v == added'[Len(added')]
          IN  /\ (ctr.scale_to # 0 /\ v > ctr.scale_to) =>
                    ctr'.scale_to = LeastHundred(v)
              /\ (ctr.scale_to # 0 /\ v <= ctr.scale_to) =>
                    ctr'.scale_to = ctr.scale_to
              /\ (ctr.auto_scale /\ ctr.scale_to = 0) => ctr'.scale_to = 0
      ]_vars

\* a fixed-scale counter raised to 200 by the sample 200, to 1100 by the
\* sample 1056, and left there by the sample 49
C17_Witness ==
    /\ mode = "graph" /\ ~ctr.auto_scale
    /\ added = <<200, 1056, 49>>
    /\ ctr.scale_to = 1100

----------------------------------------------------------------------------
(* short_round called on its own: call holds the arguments of the last call,
   ret the pair it returned. *)

\* values at which the number of 1024-buckets changes
RoundBases == {0, 1024, 2048, 1024 * 1023, 1024 * 1024, 1024 * 1024 * 1023}

\* the values the tests of short_round use
RoundTests == {0, 67, 876, 1000, 1056, 2048, 7865, 784670, 2200900}

RoundInputs ==
    {b + d : b \in RoundBases, d \in 0..MaxRoundDelta}
        \cup {b - 1 : b \in RoundBases \ {0}} \cup RoundTests

InitRound ==
    /\ mode = "round"
    /\ call = None /\ ret = None
    /\ LayoutIdle /\ CounterIdle /\ ProcIdle /\ PackIdle /\ RunIdle /\ GfxIdle /\ TimerIdle

RoundCall ==
    /\ mode = "round"
    /\ \E v \in RoundInputs, down \in BOOLEAN :
          /\ call' = Some([val |-> v, down |-> down])
          /\ ret' = Some(short_round(v, down))
    /\ UNCHANGED <<mode, ctr, added, proc, pk_in, pk_out, run2, gfx, tmr>>
    /\ UNCHANGED layoutVars

NextRound == RoundCall

SpecRound == InitRound /\ [][NextRound]_vars

\* s = 1024^k for some k >= 0
RECURSIVE IsPowerOf1024(_)
IsPowerOf1024(s) ==
    IF s = 1 THEN TRUE
    ELSE IF s < 1024 \/ s % 1024 # 0 THEN FALSE
    ELSE IsPowerOf1024(s \div 1024)

\* C18: short_round(v, down) returns (r, s) with s a power of 1024; rounding
\* down r * s <= v, rounding up r * s >= v; a value below 1024 comes back
\* unchanged with scale 1; 1056 gives (1, 1024) down and (2, 1024) up.
C18_ShortRoundBrackets ==
    (mode = "round" /\ call # None) =>
        LET v == call[1].val
            down == call[1].down
            r == ret[1][1]
            s == ret[1][2]
        IN  /\ IsPowerOf1024(s)
            /\ down => r * s <= v
            /\ ~down => r * s >= v
            /\ v < 1024 => (r = v /\ s = 1)
            /\ v = 1056 => ret[1] = IF down THEN <<1, 1024>> ELSE <<2, 1024>>

\* 1056 was rounded up
C18_Witness ==
    /\ mode = "round"
    /\ call = Some([val |-> 1056, down |-> FALSE])
    /\ ret = Some(<<2, 1024>>)

----------------------------------------------------------------------------
(* char_for_value called on its own with the fraction num / den: call holds
   the arguments of the last call, ret the glyph it returned. *)

GlyphDens == {2, 3, 8, 9, 14}

InitGlyph ==
    /\ mode = "glyph"
    /\ call = None /\ ret = None
    /\ LayoutIdle /\ CounterIdle /\ ProcIdle /\ PackIdle /\ RunIdle /\ GfxIdle /\ TimerIdle

GlyphCall ==
    /\ mode = "glyph"
    /\ \E den \in GlyphDens, detail \in Details :
          \E num \in 0..(den + MaxGlyphOver) :
              /\ call' = Some([num |-> num, den |-> den, detail |-> detail])
              /\ ret' = Some(char_for_value(num, den, detail))
    /\ UNCHANGED <<mode, ctr, added, proc, pk_in, pk_out, run2, gfx, tmr>>
    /\ UNCHANGED layoutVars

NextGlyph == GlyphCall

SpecGlyph == InitGlyph /\ [][NextGlyph]_vars

\* the glyph set of a detail level and its size
GlyphSet(detail) ==
    CASE detail = "Low" -> LOW
      [] detail = "Medium" -> MED
      [] detail = "High" -> HGH

\* how much of a cell a glyph fills, in eighths
Fill(g) == CHOOSE k \in 0..8 : HGH[k + 1] = g

\* C19: for 0 < f < 1 char_for_value(f) is the glyph at index floor(f * levels)
\* of the detail level's set, levels being 2, 3, 9 for Low, Medium, High; at
\* High the fractions k/8, k = 0..7, give blank and then the seven partial
\* blocks in ascending order; the glyph never gets smaller as f grows; f >= 1
\* gives the full block at every detail level.
C19_GlyphByLevel ==
    (mode = "glyph" /\ call # None) =>
        LET num == call[1].num
            den == call[1].den
            detail == call[1].detail
            levels == Len(GlyphSet(detail))
            g == ret[1]
        IN  /\ levels = CASE detail = "Low" -> 2
                          [] detail = "Medium" -> 3
                          [] detail = "High" -> 9
            /\ (0 < num /\ num < den) =>
                  g = GlyphSet(detail)[((num * levels) \div den) + 1]
            /\ (detail = "High" /\ den = 8 /\ num < 8) =>
                  /\ Fill(g) = num
                  /\ g = <<" ", "b1", "b2", "b3", "b4", "b5", "b6", "b7">>[num + 1]
            /\ num >= den => g = "b8"
            /\ \A den2 \in GlyphDens : \A num2 \in 0..(den2 + MaxGlyphOver) :
                  num2 * den >= num * den2 =>
                      Fill(char_for_value(num2, den2, detail)) >= Fill(g)

\* seven eighths at High gave the seventh partial block
C19_Witness ==
    /\ mode = "glyph"
    /\ call = Some([num |-> 7, den |-> 8, detail |-> "High"])
    /\ ret = Some("b7")

\* the range R and the floor rangeMin a drawn counter is rasterized over
Range(c) ==
    IF c.auto_scale
    THEN (IF gfx.scale_max THEN <<c.max, 0>> ELSE <<c.gmax - c.gmin, c.gmin>>)
    ELSE <<c.scale_to, 0>>

\* the glyph of the screen at column x of row `row`, both counted from 0
CellAt(c, x, row) == c.screen[row * gfx.w + x + 1]

\* the columns of the screen that show a sample
SampleColumns(c) == {x \in 0..(gfx.w - 1) : x >= gfx.w - Len(Shown(c, gfx.w))}

\* the sample column x shows
SampleAt(c, x) == Shown(c, gfx.w)[x - (gfx.w - Len(Shown(c, gfx.w))) + 1]

Clip(d, R) == IF d < 0 THEN 0 ELSE IF d > R THEN R ELSE d

\* a step that redraws the counter: no sample arrives, no maximum is reset
DrawStep ==
    /\ mode = "graph"
    /\ added' = added
    /\ ctr'.max = ctr.max /\ ctr'.scale_to = ctr.scale_to
    /\ ctr'.screen # <<>>

\* C20 (as stated): in every sample column drawn over a non-zero range R above
\* rangeMin the full cells are exactly the floor(clip(value - rangeMin, 0, R) /
\* (R / height)) bottom cells of the graph; a value >= rangeMin + R fills all
\* cells, a value <= rangeMin leaves the column blank.
C20_FullCellsFloor ==
    [][ DrawStep =>
          LET c == ctr'
              R == Range(c)[1]
              rmin == Range(c)[2]
              h == gfx.h
          IN  R # 0 =>
                \A x \in SampleColumns(c) :
                    LET v == SampleAt(c, x)
                        n == (Clip(v - rmin, R) * h) \div R
                    IN  /\ {row \in 0..(h - 1) : CellAt(c, x, row) = "b8"}
                              = (h - n)..(h - 1)
                        /\ v >= rmin + R =>
                              \A row \in 0..(h - 1) : CellAt(c, x, row) = "b8"
                        /\ v <= rmin =>
                              \A row \in 0..(h - 1) : CellAt(c, x, row) = " "
      ]_vars

\* C20 (amended): the n = floor(clip(value - rangeMin, 0, R) / (R / height))
\* bottom cells of the column are full; the cell above them holds the glyph
\* of the remaining fraction f of a cell, index floor(f * levels) of the detail
\* level's set, which is the full block as well when f >= (levels - 1) /
\* levels; the cells above that are blank. A value >= rangeMin + R fills all
\* cells, a value <= rangeMin leaves the column blank.
C20_FullCellsAndRemainder ==
    [][ DrawStep =>
          LET c == ctr'
              R == Range(c)[1]
              rmin == Range(c)[2]
              h == gfx.h
              set == GlyphSet(gfx.detail)
          IN  R # 0 =>
                \A x \in SampleColumns(c) :
                    LET v == SampleAt(c, x)
                        n == (Clip(v - rmin, R) * h) \div R
                        rem == Clip(v - rmin, R) * h - n * R
                    IN  /\ \A row \in 0..(h - 1) :
                              CellAt(c, x, row) =
                                  IF row >= h - n THEN "b8"
                                  ELSE IF row = h - n - 1
                                  THEN set[((rem * Len(set)) \div R) + 1]
                                  ELSE " "
                        /\ v >= rmin + R =>
                              \A row \in 0..(h - 1) : CellAt(c, x, row) = "b8"
                        /\ v <= rmin =>
                              \A row \in 0..(h - 1) : CellAt(c, x, row) = " "
      ]_vars

\* a fixed-scale counter drawn two rows high at High detail whose last sample
\* 49 of 100 fills 0.98 of the bottom cell: the bottom cell of the last column
\* is the full block, the cell above it is blank
C20_Witness ==
    /\ mode = "graph" /\ ~ctr.auto_scale /\ ctr.scale_to = 100
    /\ gfx.h = 2 /\ gfx.detail = "High"
    /\ Drawn /\ ctr.values # <<>> /\ last(ctr) = 49
    /\ CellAt(ctr, gfx.w - 1, 1) = "b8"
    /\ CellAt(ctr, gfx.w - 1, 0) = " "

----------------------------------------------------------------------------
(* The event loop with its clock: now is Instant::now(), in units of which  *)
(* config.freq is Freq; poll returns at an event or after Freq; handling an  *)
(* event takes no time, an update, place and draw take up to MaxWork.        *)

\* the processes every snapshot reports
TimerAlive == {1, 2}

\* time an update, place and draw can take
WorkTimes == 0..MaxWork

\* the poll timeout as the refresh interval: always elapsed
must_update_always(elapsed, freq) == TRUE

\* line 98: tm.elapsed() >= Duration::from_millis(lay.config.freq)
must_update(elapsed, freq) == elapsed >= freq

InitTimer ==
    /\ mode = "timer"
    /\ lay = NewLayout(MinCols, MinRows, "Auto")
    /\ pc = "start" /\ now = 0 /\ ticks = 0
    /\ scroll_res = FALSE
    /\ tmr = IdleTimer
    /\ CounterIdle /\ ProcIdle /\ PackIdle /\ RunIdle /\ GfxIdle /\ CallIdle

\* lines 21-32: tm is read, then the first update, place and draw
TimerStartup ==
    /\ mode = "timer" /\ pc = "start"
    /\ \E smp \in Samples, d \in WorkTimes :
          /\ lay' = place(update_procs(lay, TimerAlive, smp, now, 0))
          /\ now' = now + d
          /\ tmr' = [tm |-> now, wait |-> now + d, merged |-> now, ev |-> "none"]
    /\ ticks' = ticks + 1
    /\ pc' = "loop"
    /\ UNCHANGED <<mode, scroll_res, ctr, added, proc, pk_in, pk_out, run2, gfx,
                   call, ret>>

\* lines 98-127 of one iteration: poll returned at time t with the event ev,
\* whose handler left the layout L and force_redraw
LoopBody(L, force_redraw, t, ev) ==
    LET must == must_update(t - tmr.tm, Freq)
    IN  IF ~force_redraw /\ ~must
        THEN /\ lay' = L
             /\ now' = t
             /\ tmr' = [tmr EXCEPT !.wait = t, !.ev = ev]
             /\ UNCHANGED ticks
        ELSE \E smp \in Samples, d \in WorkTimes :
                /\ t + d <= MaxClock
                /\ lay' = place(IF must
                                THEN update_procs(L, TimerAlive, smp, t, 0)
                                ELSE L)
                /\ now' = t + d
                /\ ticks' = IF must THEN ticks + 1 ELSE ticks
                /\ tmr' = [tm |-> IF must THEN t + d ELSE tmr.tm,
                           wait |-> t + d,
                           merged |-> IF must THEN t ELSE tmr.merged,
                           ev |-> ev]

\* poll timed out after config.freq
TimerTimeout ==
    /\ mode = "timer" /\ pc = "loop"
    /\ tmr.wait + Freq <= MaxClock
    /\ LoopBody(lay, FALSE, tmr.wait + Freq, "none")
    /\ scroll_res' = FALSE
    /\ UNCHANGED <<mode, pc, ctr, added, proc, pk_in, pk_out, run2, gfx, call, ret>>

\* the space key arrived w after poll began
TimerMark ==
    /\ mode = "timer" /\ pc = "loop"
    /\ \E w \in 0..Freq :
          /\ tmr.wait + w <= MaxClock
          /\ LoopBody(toggle_mark(lay, tmr.wait + w), TRUE, tmr.wait + w, "mark")
    /\ scroll_res' = TRUE
    /\ UNCHANGED <<mode, pc, ctr, added, proc, pk_in, pk_out, run2, gfx, call, ret>>

\* Down or Up arrived w after poll began
TimerScroll ==
    /\ mode = "timer" /\ pc = "loop"
    /\ \E w \in 0..Freq, shift \in {-1, 1} :
          LET r == scroll(lay, shift)
          IN  /\ tmr.wait + w <= MaxClock
              /\ LoopBody(r.lay, r.res, tmr.wait + w, "scroll")
              /\ scroll_res' = r.res
    /\ UNCHANGED <<mode, pc, ctr, added, proc, pk_in, pk_out, run2, gfx, call, ret>>

\* Event::Resize arrived w after poll began
TimerResize ==
    /\ mode = "timer" /\ pc = "loop"
    /\ \E w \in 0..Freq, height \in Rows :
          /\ tmr.wait + w <= MaxClock
          /\ LoopBody(size_changed(lay, MinCols, height), TRUE, tmr.wait + w, "resize")
    /\ scroll_res' = TRUE
    /\ UNCHANGED <<mode, pc, ctr, added, proc, pk_in, pk_out, run2, gfx, call, ret>>

NextTimer == TimerStartup \/ TimerTimeout \/ TimerMark \/ TimerScroll \/ TimerResize

SpecTimer == InitTimer /\ [][NextTimer]_vars

\* the number of samples each panel holds
SampleCounts(L) == [i \in 1..Len(L.procs) |-> Len(L.procs[i].mem.values)]

\* the instant at which poll times out: the merge is performed then unless an
\* event arrives before
NextMergeBy(t) == t.wait + Freq

----------------------------------------------------------------------------
(* Three processes end to end: each snapshot reports a CPU value for the     *)
(* pids 1, 2, 3 (added keeps the reports), update_proc adds them, and the    *)
(* CPU graphs are drawn E2EHeight rows high. pc is "drawn" while the screens *)
(* show the last snapshot.                                                   *)

E2EPids == <<1, 2, 3>>
E2ECpu == {10, 20, 30}
\* the graph of a panel of minimum height: hc - 3 in draw_counter
E2EHeight == GRAPH_AREA

\* update_proc for the pids 1..k of a snapshot reporting cpu[pid]
RECURSIVE update_reported(_, _, _)
update_reported(procs, k, cpu) ==
    IF k = 0 THEN procs
    ELSE update_proc(update_reported(procs, k - 1, cpu), E2EPids[k],
                     [cpu |-> cpu[k], mem |-> 2000, io_r |-> 4, io_w |-> 2,
                      d_r |-> 1, d_w |-> 0])

InitE2E ==
    /\ mode = "e2e"
    /\ lay = NewLayout(MinCols, MinRows, "Auto")
    /\ pc = "loop" /\ now = 0 /\ ticks = 0 /\ scroll_res = FALSE
    /\ added = <<>> /\ ctr = IdleCounter
    /\ \E w \in GraphWidths, detail \in Details :
          gfx = [w |-> w, h |-> E2EHeight, detail |-> detail, scale_max |-> FALSE]
    /\ ProcIdle /\ PackIdle /\ RunIdle /\ CallIdle /\ TimerIdle

\* Layout::update_procs on a snapshot that reports all three processes
E2ESnapshot ==
    /\ mode = "e2e"
    /\ ticks < MaxSnapshots
    /\ \E cpu \in [1..3 -> E2ECpu] :
          /\ lay' = [lay EXCEPT !.procs = sort(update_reported(lay.procs, 3, cpu))]
          /\ added' = Append(added, cpu)
    /\ ticks' = ticks + 1
    /\ pc' = "loop"
    /\ UNCHANGED <<mode, now, scroll_res, ctr, proc, pk_in, pk_out, run2, gfx,
                   call, ret, tmr>>

\* draw_counter's proc.cpu.update for every panel
E2EDraw ==
    /\ mode = "e2e"
    /\ lay' = [lay EXCEPT !.procs = [i \in 1..Len(lay.procs) |->
                  [lay.procs[i] EXCEPT !.cpu = update(lay.procs[i].cpu, gfx.w, gfx.h, gfx)]]]
    /\ pc' = "drawn"
    /\ UNCHANGED <<mode, now, ticks, scroll_res, ctr, added, proc, pk_in, pk_out,
                   run2, gfx, call, ret, tmr>>

NextE2E == E2ESnapshot \/ E2EDraw

SpecE2E == InitE2E /\ [][NextE2E]_vars

\* the panel of process pid
PanelOf(pid) == CHOOSE i \in 1..Len(lay.procs) : lay.procs[i].pid = pid

\* the newest column of the CPU graph of process pid, top row first
CpuColumn(pid) ==
    [row \in 1..gfx.h |-> CellAt(lay.procs[PanelOf(pid)].cpu, gfx.w - 1, row - 1)]

\* the glyph for half a cell: the middle one of three or nine, the upper one
\* of two
HalfGlyph == IF gfx.detail = "Low" THEN "b8" ELSE "b4"

\* C22 (as stated): after one first snapshot reporting CPU 10, 20, 30 for the
\* processes 1, 2, 3 every panel's CPU column has no full row and exactly one
\* non-blank glyph, the mid-level one for CPU 10.
C22_FirstSnapshotGlyphs ==
    (mode = "e2e" /\ pc = "drawn" /\ added = << <<10, 20, 30>> >>) =>
        /\ \A pid \in 1..3 :
              Cardinality({row \in 1..gfx.h : CpuColumn(pid)[row] # " "}) = 1
        /\ gfx.detail # "Low" =>
              /\ \A pid \in 1..3 : \A row \in 1..gfx.h : CpuColumn(pid)[row] # "b8"
              /\ CpuColumn(1)[gfx.h] = "b4"

\* C22 (amended): Process::add records 0 as a panel's first CPU sample, so
\* after the first snapshot every CPU column is blank; after a second snapshot
\* a reported 10 gives no full row and the half-cell glyph in the bottom row,
\* 20 one full row and nothing above it, 30 one full row and the half-cell
\* glyph above it.
C22_SnapshotGlyphs ==
    (mode = "e2e" /\ pc = "drawn" /\ added # <<>>) =>
        \A pid \in 1..3 :
            LET r == added[Len(added)][pid]
                c == lay.procs[PanelOf(pid)].cpu
            IN  /\ c.scale_to = CpuScale
                /\ c.values[1] = 0
                /\ Len(added) = 1 =>
                      CpuColumn(pid) = <<" ", " ", " ", " ", " ">>
                /\ Len(added) > 1 =>
                      /\ last(c) = r
                      /\ CpuColumn(pid) =
                            CASE r = 10 -> <<" ", " ", " ", " ", HalfGlyph>>
                              [] r = 20 -> <<" ", " ", " ", " ", "b8">>
                              [] r = 30 -> <<" ", " ", " ", HalfGlyph, "b8">>

\* drawn at High detail after a second snapshot reporting 10, 20, 30 again
C22_Witness ==
    /\ mode = "e2e" /\ pc = "drawn"
    /\ added = << <<10, 20, 30>>, <<10, 20, 30>> >>
    /\ gfx.detail = "High"
    /\ CpuColumn(1)[E2EHeight] = "b4"
    /\ CpuColumn(3)[E2EHeight] = "b8" /\ CpuColumn(3)[E2EHeight - 1] = "b4"

----------------------------------------------------------------------------
(* All-time maximum and last_diff of a Counter (counter.rs: add, last_diff) *)

\* C23: with no reset_max in between, max is the largest sample ever added,
\* dropped samples included, and no add lowers it.
C23_MaxOfAllAdded ==
    mode = "counter" =>
        /\ ctr.max = SeqMax(added)
        /\ \A val \in 0..MaxSample : CounterAdd(ctr, val).max >= ctr.max

\* the largest sample has left the rolling buffer
C23_Witness ==
    /\ mode = "counter"
    /\ Len(added) > ctr.display_cnt
    /\ ctr.max = MaxSample
    /\ SeqMax(ctr.values) < ctr.max

\* C24: last_diff is 0 with fewer than two retained samples; otherwise it is
\* the latest sample minus the mark baseline when a mark is set and the latest
\* sample minus the one before it when none is set, negative when the value
\* fell.
C24_LastDiff ==
    mode = "mark" =>
        LET c == proc.mem
            l == Len(c.values)
            d == last_diff(c)
        IN  /\ l < 2 => d = 0
            /\ (l >= 2 /\ c.mark_value # None) => d = c.values[l] - c.mark_value[1]
            /\ (l >= 2 /\ c.mark_value = None) => d = c.values[l] - c.values[l - 1]
            /\ (l >= 2 /\ c.mark_value = None /\ c.values[l] < c.values[l - 1]) => d < 0

\* the mark was set at 2000, two samples of 1056 followed: the difference to
\* the baseline is negative, the one to the preceding sample is 0
C24_Witness ==
    /\ mode = "mark"
    /\ proc.mem.values = <<2000, 1056, 1056>>
    /\ proc.mem.mark_value = Some(2000)
    /\ last_diff(proc.mem) = 1056 - 2000

----------------------------------------------------------------------------
(* One Counter drawn at changing sizes: samples arrive, and draw_counter     *)
(* (calculate_range, then update) draws it at a width and height that vary   *)
(* from call to call; gfx keeps the size of the last call. pc is "drawn"     *)
(* while the screen shows the retained samples.                              *)

ScreenSizes == 0..MaxSize
ScreenSamples == {0, 49, 1056}

InitScreen ==
    /\ mode = "screen"
    /\ \E auto \in BOOLEAN, cnt \in 1..2 :
          \E sm \in IF auto THEN BOOLEAN ELSE {FALSE} :
              /\ gfx = [IdleGfx EXCEPT !.scale_max = sm]
              /\ ctr = IF auto
                       THEN [DefaultCounter EXCEPT !.display_cnt = cnt,
                                                   !.auto_scale = TRUE]
                       ELSE [DefaultCounter EXCEPT !.display_cnt = cnt,
                                                   !.scale_to = CpuScale]
    /\ added = <<>>
    /\ lay = IdleLayout /\ pc = "loop" /\ now = 0 /\ ticks = 0 /\ scroll_res = FALSE
    /\ ProcIdle /\ PackIdle /\ RunIdle /\ CallIdle /\ TimerIdle

\* Counter::add
ScreenAdd ==
    /\ mode = "screen"
    /\ Len(added) < MaxScreenAdds
    /\ \E val \in ScreenSamples :
          /\ ctr' = CounterAdd(ctr, val)
          /\ added' = Append(added, val)
    /\ pc' = "loop"
    /\ UNCHANGED <<mode, lay, now, ticks, scroll_res, proc, pk_in, pk_out, run2,
                   gfx, call, ret, tmr>>

\* draw_counter at the size neww x newh
ScreenDraw ==
    /\ mode = "screen"
    /\ \E neww \in ScreenSizes, newh \in ScreenSizes :
          /\ ctr' = draw_counter(ctr, neww, newh, gfx)
          /\ gfx' = [gfx EXCEPT !.w = neww, !.h = newh]
    /\ pc' = "drawn"
    /\ UNCHANGED <<mode, lay, now, ticks, scroll_res, added, proc, pk_in, pk_out,
                   run2, call, ret, tmr>>

NextScreen == ScreenAdd \/ ScreenDraw

SpecScreen == InitScreen /\ [][NextScreen]_vars

\* C25: after every update(width, height) the screen holds width * (height +
\* 1) cells, whatever the sizes of the calls before, a zero width or height
\* after a non-zero size included; with no sample or a zero range all of them
\* are blank.
C25_ScreenSize ==
    (mode = "screen" /\ pc = "drawn") =>
        /\ Len(ctr.screen) = gfx.w * (gfx.h + 1)
        /\ (ctr.values = <<>> \/ Range(ctr)[1] = 0) =>
              \A pos \in 1..Len(ctr.screen) : ctr.screen[pos] = " "

----------------------------------------------------------------------------
(* The packers at their limits (config.rs: graph_height, visible_count;      *)
(* layout.rs: max_shown, place)                                              *)

\* C26: when one panel is higher than the available rows H the visible count
\* is 0 and place gives every panel the zero rectangle; for every panel count
\* and H no packer divides by zero or subtracts below zero.
C26_PackerTotal ==
    (mode = "packer" /\ pk_out # None) =>
        LET cfg == config_ops(pk_in.graph_pos, pk_in.graphs, pk_in.n, AvailRows)
            lay_ops == max_shown_ops(pk_in.n, pk_in.rows, PackOf(pk_in.graph_pos))
        IN  /\ \A d \in cfg.divs \cup lay_ops.divs : d # 0
            /\ \A m \in cfg.subs \cup lay_ops.subs : m[1] >= m[2]
            /\ Out.height > AvailRows => Out.visible = 0
            /\ Out.shown.hgt > AvailRows =>
                  /\ Out.shown.cnt = 0
                  /\ \A i \in 1..Len(Out.placed) :
                        /\ Out.placed[i].x = 0 /\ Out.placed[i].y = 0
                        /\ Out.placed[i].w = 0 /\ Out.placed[i].h = 0

\* stacked panels of 14 rows on a terminal with 9 rows below the header: none
\* of the three panels is shown by either packer
C26_Witness ==
    /\ mode = "packer" /\ pk_out # None
    /\ pk_in.n = 3 /\ pk_in.graph_pos = "Top" /\ pk_in.graphs = "All"
    /\ AvailRows < Out.height /\ AvailRows < Out.shown.hgt
    /\ Out.visible = 0 /\ Out.shown.cnt = 0
    /\ Len(Out.placed) = 3 /\ Out.placed[1].w = 0

----------------------------------------------------------------------------
(* dead and dead_since (layout.rs: update_procs; counter.rs: Process::new,   *)
(* impl Ord for Process)                                                     *)

\* C27: every tracked panel is dead exactly when its dead_since is set, so the
\* comparator's read of dead_since never fails; a new panel starts alive with
\* no dead_since.
C27_DeadIffDeadSince ==
    /\ \A pid \in Pids, sided \in BOOLEAN :
          ~NewProcess(pid, sided).dead /\ NewProcess(pid, sided).dead_since = None
    /\ mode = "layout" =>
          \A i \in 1..Len(lay.procs) :
              lay.procs[i].dead <=> lay.procs[i].dead_since # None

\* two dead panels and an alive one have been through the sort together
C27_Witness ==
    /\ mode = "layout"
    /\ \E i, j, k \in 1..Len(lay.procs) :
          /\ i # j
          /\ lay.procs[i].dead /\ lay.procs[i].dead_since # None
          /\ lay.procs[j].dead /\ lay.procs[j].dead_since # None
          /\ ~lay.procs[k].dead /\ lay.procs[k].dead_since = None

----------------------------------------------------------------------------
(* Placed rectangles on the terminal (layout.rs: place, max_shown) *)

\* C28: after place the rectangles of the visible panels are pairwise disjoint
\* in rows and lie inside the terminal below the header row: y >= 1 and
\* y + h <= terminal rows.
C28_RectanglesInside ==
    (mode = "layout" /\ pc = "loop") =>
        /\ \A i \in 1..Total :
              lay.procs[i].w # 0 =>
                  /\ lay.procs[i].y >= 1
                  /\ lay.procs[i].h >= 1
                  /\ lay.procs[i].y + lay.procs[i].h <= lay.h
        /\ \A i, j \in 1..Total :
              (i < j /\ lay.procs[i].w # 0 /\ lay.procs[j].w # 0) =>
                  lay.procs[i].y + lay.procs[i].h <= lay.procs[j].y

\* three panels are shown after a scrolled-out one, the last ending before the
\* terminal's last row
C28_Witness ==
    /\ mode = "layout" /\ pc = "loop" /\ Total = 4 /\ lay.top_item = 1
    /\ lay.procs[1].w = 0
    /\ lay.procs[2].w # 0 /\ lay.procs[3].w # 0 /\ lay.procs[4].w # 0
    /\ lay.procs[2].y = 1
    /\ lay.procs[4].y + lay.procs[4].h <= lay.h

----------------------------------------------------------------------------
(* The global mark and the panels' baselines (layout.rs: toggle_mark,        *)
(* update_proc; counter.rs: Process::toggle_mark)                            *)

\* C29: after any interleaving of toggle_mark calls and merges that create
\* panels, every tracked panel has its memory and I/O baselines set exactly
\* when the layout's mark_since is set, so no panel is in the opposite mark
\* state from the others.
C29_MarksFollowGlobalMark ==
    mode = "keys" =>
        \A i \in 1..Len(lay.procs) :
            /\ lay.procs[i].mem.mark_value # None <=> lay.mark_since # None
            /\ lay.procs[i].mark_r_io # None <=> lay.mark_since # None
            /\ lay.procs[i].mark_w_io # None <=> lay.mark_since # None

----------------------------------------------------------------------------
(* The range a counter is rasterized with (counter.rs: draw_counter,         *)
(* calculate_range, update)                                                  *)

\* C30: whenever update rasterizes an auto-scaled counter scaled to its
\* visible range, gmin <= every retained sample <= gmax, so `value - gmin`
\* never goes below zero, for every interleaving of add, resize and redraw.
C30_RangeCoversSamples ==
    (mode = "screen" /\ pc = "drawn") =>
        /\ \A m \in update_subs(ctr, gfx.w, gfx) : m[1] >= m[2]
        /\ (ctr.auto_scale /\ ~gfx.scale_max) =>
              \A k \in 1..Len(ctr.values) :
                  ctr.gmin <= ctr.values[k] /\ ctr.values[k] <= ctr.gmax

\* a sample below the range of the draw before has been added and the counter
\* is drawn again: the range starts at the new sample
C30_Witness ==
    /\ mode = "screen" /\ pc = "drawn"
    /\ ctr.auto_scale /\ ~gfx.scale_max /\ gfx.w = 2 /\ gfx.h = 2
    /\ ctr.values = <<1056, 49>>
    /\ ctr.gmin = 49 /\ ctr.gmax >= 1056
    /\ <<49, 49>> \in update_subs(ctr, gfx.w, gfx)

====
